---- MODULE Spec2Model ----
(***************************************************************************)
(* Alert rules of pkg/services/sqlstore/alert.go over the tables alert,    *)
(* tag, alert_rule_tag, alert_rule_notification, annotation and            *)
(* alert_notification_state.  Every command is one atomic step: the body   *)
(* of its transaction runs statement by statement on a session, any        *)
(* statement may fail, and the transaction commits or rolls back.  For     *)
(* concurrent callers UpdateAlert is two steps, the part before its        *)
(* transaction and the transaction.                                        *)
(***************************************************************************)
EXTENDS Integers, Sequences, FiniteSets, TLC

\* ------------------------------------------------------------------ bounds
\* highest id the alert table's autoincrement hands out
MaxAlertId == 2
\* the clock takes the values 1..MaxClock
MaxClock == 2
\* SetAlertState stops incrementing state_changes here
MaxStateChanges == 2
\* longest SaveAlertsCommand.Alerts
MaxDesired == 2
\* a session fails at its n-th statement, n <= MaxFailAt (0: no failure)
MaxFailAt == 7
\* UpdateAlert calls that passed x.Exist and have not begun their transaction
MaxUpdating == 1

\* ------------------------------------------------------------------ models/alert.go
AlertStateNoData == "no_data"
AlertStatePaused == "paused"
AlertStateAlerting == "alerting"
AlertStateOK == "ok"
AlertStatePending == "pending"
AlertStateUnknown == "unknown"

AlertStateType ==
  {AlertStateNoData, AlertStatePaused, AlertStateAlerting,
   AlertStateOK, AlertStatePending, AlertStateUnknown}

NoErr == "nil"
ErrCannotChangeStateOnPausedAlert == "Cannot change state on pause alert"
ErrRequiresNewState == "update alert state requires a new state"
ErrCouldNotFindAlert == "Could not find alert"
ErrGetCouldNotFindAlert == "could not find alert"
ErrNoAlertIds == "command contains no alertids"
ErrCannotFindAlert == "Cannot find alert"
\* the error time.ParseDuration returns
ErrInvalidDuration == "time: invalid duration"
\* the error the caller of SaveAlerts returns for an alert that is not ValidToSave
ErrDashboardContainsInvalidAlertData == "Invalid alert data. Cannot save dashboard"
\* the error a failing statement of the session returns
ErrStorage == "storage error"

\* time.Time{}: the zero time
ZeroTime == 0

\* *simplejson.Json: nil, or a document {alertRuleTags: {...}, notifications: [{uid}...]}.
\* alertRuleTags lists the tags in the order ranging over the map yields them.
NilJson == [isNil |-> TRUE, alertRuleTags |-> <<>>, notifications |-> <<>>, data |-> ""]

JsonDoc(tags, uids) ==
  [isNil |-> FALSE, alertRuleTags |-> tags, notifications |-> uids, data |-> ""]

\* an evaluation payload (SetAlertStateCommand.EvalData)
EvalDoc(d) == [isNil |-> FALSE, alertRuleTags |-> <<>>, notifications |-> <<>>, data |-> d]

\* simplejson.Json.Encode: the JSON text of the document, keys in sorted order
Encode(j) == <<"alertRuleTags", j.alertRuleTags, "data", j.data, "notifications", j.notifications>>

\* the columns of the alert table, by the Go kind of the struct field
StringCols == {"name", "message", "state", "executionError"}
IntCols ==
  {"orgId", "dashboardId", "panelId", "frequency", "for", "stateChanges", "newStateDate",
   "created", "updated"}
JsonCols == {"evalData", "settings"}

\* models.Alert as SaveAlertsCommand.Alerts carries it: the fields the caller
\* fills, every other field zero
Alert(orgId, dashboardId, panelId, name, message, state, settings) ==
  [id |-> 0, orgId |-> orgId, dashboardId |-> dashboardId, panelId |-> panelId,
   name |-> name, message |-> message, state |-> state, executionError |-> "",
   frequency |-> 0, for |-> 0, evalData |-> NilJson, newStateDate |-> ZeroTime, stateChanges |-> 0,
   created |-> ZeroTime, updated |-> ZeroTime, settings |-> settings]

\* the org left out of the test
ValidToSaveNoOrg(a) == a.dashboardId # 0 /\ a.panelId # 0

ValidToSave(a) == a.dashboardId # 0 /\ a.orgId # 0 /\ a.panelId # 0

ContainsUpdates(this, other) ==
  LET r1 == this.name # other.name
      r2 == r1 \/ this.message # other.message
  IN  IF ~this.settings.isNil /\ ~other.settings.isNil
        THEN r2 \/ Encode(this.settings) # Encode(other.settings)
        ELSE r2

GetTagsFromSettings(a) == IF a.settings.isNil THEN <<>> ELSE a.settings.alertRuleTags

GetNotificationsFromSettings(a) == IF a.settings.isNil THEN <<>> ELSE a.settings.notifications

\* ------------------------------------------------------------------ state
VARIABLES
  alert,                    \* table alert: a set of rows (models.Alert)
  tag,                      \* table tag: rows [id, tag]
  alert_rule_tag,           \* table alert_rule_tag: a bag of rows [alertId, tagId]
  alert_rule_notification,  \* table alert_rule_notification: a bag of rows [alertId, notificationId]
  annotation,               \* table annotation: the rows that name an alert, [alertId]
  alert_notification_state, \* table alert_notification_state: rows [alertId]
  nextAlertId,              \* the alert table's autoincrement
  now,                      \* timeNow()
  last,                     \* the last command: what it was asked and what it returned
  updating                  \* the UpdateAlert calls between x.Exist and their transaction

tables == <<alert, tag, alert_rule_tag, alert_rule_notification, annotation,
            alert_notification_state, nextAlertId>>

vars == <<alert, tag, alert_rule_tag, alert_rule_notification, annotation,
          alert_notification_state, nextAlertId, now, last, updating>>

\* table alert_notification, the channel registry: written by no command here
AlertNotification ==
  {[id |-> 1, orgId |-> 1, uid |-> "u1"], [id |-> 2, orgId |-> 2, uid |-> "u1"]}

\* the database as one value, as a session sees it
DB ==
  [alert |-> alert, tag |-> tag, alert_rule_tag |-> alert_rule_tag,
   alert_rule_notification |-> alert_rule_notification, annotation |-> annotation,
   alert_notification_state |-> alert_notification_state, nextAlertId |-> nextAlertId]

EmptyBag == [e \in {} |-> 0]

\* INSERT of the rows `rows` into a link table
BagInsert(b, rows) ==
  [x \in DOMAIN b \cup rows |->
     (IF x \in DOMAIN b THEN b[x] ELSE 0) + (IF x \in rows THEN 1 ELSE 0)]

\* DELETE FROM <link table> WHERE alert_id = ?
BagDelete(b, alertId) == [x \in {y \in DOMAIN b : y.alertId # alertId} |-> b[x]]

\* ------------------------------------------------------------------ the session
\* A DBSession inside a transaction: the database as the statements so far left it,
\* the number of statements run, the statement that fails (0: none), the error
\* returned so far and the tables some statement changed.
Begin(db, failAt) ==
  [db |-> db, n |-> 0, failAt |-> failAt, err |-> NoErr, writes |-> {}, log |-> {},
   result |-> {}, count |-> 0]

\* sqlog.Debug(msg, "id", id)
Debug(s, msg, id) ==
  IF s.err # NoErr THEN s ELSE [s EXCEPT !.log = @ \cup {[msg |-> msg, id |-> id]}]

\* one statement (sess.Exec, sess.Find, sess.Insert, sess.Update): it is not run
\* once an error was returned, it fails if it is the failing statement, and
\* otherwise leaves newdb, having changed rows of the tables `touched`
Exec(s, newdb, touched) ==
  IF s.err # NoErr THEN s
  ELSE IF s.n + 1 = s.failAt THEN [s EXCEPT !.n = @ + 1, !.err = ErrStorage]
  ELSE [s EXCEPT !.n = @ + 1, !.db = newdb, !.writes = @ \cup touched]

\* return err without running a statement
Fail(s, err) == IF s.err # NoErr THEN s ELSE [s EXCEPT !.err = err]

\* inTransaction: commit what the callback left if it returned nil, roll back otherwise
inTransaction(db, s) == IF s.err = NoErr THEN s.db ELSE db

\* every column written, zero or not
XormUpdateEveryColumn(row, bean, mustCols) ==
  [c \in DOMAIN row |-> IF c = "id" THEN row[c] ELSE bean[c]]

\* xorm's Update(bean): a column is written if the bean's field is not the zero
\* value of its kind, or the column is named by MustCols, or the field converts
\* itself (simplejson.Json); the autoincrement id is never written.
XormUpdate(row, bean, mustCols) ==
  [c \in DOMAIN row |->
     IF c = "id" THEN row[c]
     ELSE IF c \in mustCols \/ c \in JsonCols THEN bean[c]
     ELSE IF c \in StringCols THEN (IF bean[c] # "" THEN bean[c] ELSE row[c])
     ELSE (IF bean[c] # 0 THEN bean[c] ELSE row[c])]

\* sess.ID(id).Update(bean)
UpdateById(s, id, bean, mustCols) ==
  Exec(s,
       [s.db EXCEPT !.alert =
          {IF r.id = id THEN XormUpdate(r, bean, mustCols) ELSE r : r \in @}],
       IF \E r \in s.db.alert : r.id = id THEN {"alert"} ELSE {})

\* ------------------------------------------------------------------ sqlstore/alert.go
\* the annotations left behind
deleteAlertByIdKeepsAnnotations(alertId, s0) ==
  LET s  == Debug(s0, "Deleting alert", alertId)
      s1 == Exec(s, [s.db EXCEPT !.alert = {r \in @ : r.id # alertId}],
                 IF \E r \in s.db.alert : r.id = alertId THEN {"alert"} ELSE {})
      s3 == Exec(s1, [s1.db EXCEPT !.alert_notification_state =
                        {r \in @ : r.alertId # alertId}],
                 IF \E r \in s1.db.alert_notification_state : r.alertId = alertId
                   THEN {"alert_notification_state"} ELSE {})
      s4 == Exec(s3, [s3.db EXCEPT !.alert_rule_tag = BagDelete(@, alertId)],
                 IF \E r \in DOMAIN s3.db.alert_rule_tag : r.alertId = alertId
                   THEN {"alert_rule_tag"} ELSE {})
      s5 == Exec(s4, [s4.db EXCEPT !.alert_rule_notification = BagDelete(@, alertId)],
                 IF \E r \in DOMAIN s4.db.alert_rule_notification : r.alertId = alertId
                   THEN {"alert_rule_notification"} ELSE {})
  IN  s5

deleteAlertByIdInternal(alertId, s0) ==
  LET s  == Debug(s0, "Deleting alert", alertId)
      s1 == Exec(s, [s.db EXCEPT !.alert = {r \in @ : r.id # alertId}],
                 IF \E r \in s.db.alert : r.id = alertId THEN {"alert"} ELSE {})
      s2 == Exec(s1, [s1.db EXCEPT !.annotation = {r \in @ : r.alertId # alertId}],
                 IF \E r \in s1.db.annotation : r.alertId = alertId
                   THEN {"annotation"} ELSE {})
      s3 == Exec(s2, [s2.db EXCEPT !.alert_notification_state =
                        {r \in @ : r.alertId # alertId}],
                 IF \E r \in s2.db.alert_notification_state : r.alertId = alertId
                   THEN {"alert_notification_state"} ELSE {})
      s4 == Exec(s3, [s3.db EXCEPT !.alert_rule_tag = BagDelete(@, alertId)],
                 IF \E r \in DOMAIN s3.db.alert_rule_tag : r.alertId = alertId
                   THEN {"alert_rule_tag"} ELSE {})
      s5 == Exec(s4, [s4.db EXCEPT !.alert_rule_notification = BagDelete(@, alertId)],
                 IF \E r \in DOMAIN s4.db.alert_rule_notification : r.alertId = alertId
                   THEN {"alert_rule_notification"} ELSE {})
  IN  s5

\* the rows of a Find in one of the orders the store may return them
Orderings(rows) ==
  {f \in [1..Cardinality(rows) -> rows] : \A i, j \in DOMAIN f : f[i] = f[j] => i = j}

RECURSIVE deleteAll(_, _, _)
\* deleteAlertDefinition's loop over the dashboard's alerts, from the i-th on
deleteAll(alerts, i, s) ==
  IF i > Len(alerts) \/ s.err # NoErr THEN s
  ELSE deleteAll(alerts, i + 1, deleteAlertByIdInternal(alerts[i].id, s))

deleteAlertDefinition(dashboardId, alerts, s) ==
  deleteAll(alerts, 1, Exec(s, s.db, {}))

RECURSIVE TagsEnsured(_, _, _)
\* the tag table once the tags from the i-th on exist: a tag that has no row gets one
TagsEnsured(tagTable, tags, i) ==
  IF i > Len(tags) THEN tagTable
  ELSE IF \E r \in tagTable : r.tag = tags[i] THEN TagsEnsured(tagTable, tags, i + 1)
  ELSE TagsEnsured(tagTable \cup {[id |-> Cardinality(tagTable) + 1, tag |-> tags[i]]},
                   tags, i + 1)

\* EnsureTagsExist: create or fetch, one step of the session (none for no tags)
EnsureTagsExist(s, tags) ==
  IF Len(tags) = 0 THEN s
  ELSE Exec(s, [s.db EXCEPT !.tag = TagsEnsured(@, tags, 1)],
            IF \E i \in DOMAIN tags : ~\E r \in s.db.tag : r.tag = tags[i]
              THEN {"tag"} ELSE {})

TagId(tagTable, t) == (CHOOSE r \in tagTable : r.tag = t).id

RECURSIVE insertTagLinks(_, _, _, _)
insertTagLinks(s, tags, i, alertID) ==
  IF i > Len(tags) \/ s.err # NoErr THEN s
  ELSE insertTagLinks(
         Exec(s, [s.db EXCEPT !.alert_rule_tag =
                    BagInsert(@, {[alertId |-> alertID, tagId |-> TagId(s.db.tag, tags[i])]})],
              {"alert_rule_tag"}),
         tags, i + 1, alertID)

\* tags is never nil where insertTags is called (an empty slice at the least)
insertTags(s, tags, alertID) == insertTagLinks(EnsureTagsExist(s, tags), tags, 1, alertID)

RECURSIVE insertNotificationsAnyOrg(_, _, _, _, _)
\* the channel looked up by its uid alone
insertNotificationsAnyOrg(s, alertID, orgID, notificationUIDs, i) ==
  IF i > Len(notificationUIDs) \/ s.err # NoErr THEN s
  ELSE LET found == {[alertId |-> alertID, notificationId |-> c.id] :
                       c \in {n \in AlertNotification : n.uid = notificationUIDs[i]}}
       IN  insertNotificationsAnyOrg(
             Exec(s, [s.db EXCEPT !.alert_rule_notification = BagInsert(@, found)],
                  IF found # {} THEN {"alert_rule_notification"} ELSE {}),
             alertID, orgID, notificationUIDs, i + 1)

RECURSIVE insertNotificationsFrom(_, _, _, _, _)
insertNotificationsFrom(s, alertID, orgID, notificationUIDs, i) ==
  IF i > Len(notificationUIDs) \/ s.err # NoErr THEN s
  ELSE LET found == {[alertId |-> alertID, notificationId |-> c.id] :
                       c \in {n \in AlertNotification :
                                n.orgId = orgID /\ n.uid = notificationUIDs[i]}}
       IN  insertNotificationsFrom(
             Exec(s, [s.db EXCEPT !.alert_rule_notification = BagInsert(@, found)],
                  IF found # {} THEN {"alert_rule_notification"} ELSE {}),
             alertID, orgID, notificationUIDs, i + 1)

insertNotifications(s, alertID, orgID, notificationUIDs) ==
  insertNotificationsFrom(s, alertID, orgID, notificationUIDs, 1)

\* the first of existingAlerts on the alert's panel (0: none)
FirstMatch(existingAlerts, a) ==
  LET ks == {k \in DOMAIN existingAlerts : existingAlerts[k].panelId = a.panelId}
  IN  IF ks = {} THEN 0 ELSE CHOOSE k \in ks : \A j \in ks : k <= j

\* the caller's state kept
UpdatedAlertCallerState(a, alertToUpdate, t) ==
  [a EXCEPT !.id = alertToUpdate.id, !.updated = t]

\* the matched alert as it is handed to Update
UpdatedAlert(a, alertToUpdate, t) ==
  [a EXCEPT !.id = alertToUpdate.id, !.updated = t, !.state = alertToUpdate.state]

\* the unmatched alert as it is handed to Insert
InsertedAlert(a, t) ==
  [a EXCEPT !.updated = t, !.created = t, !.state = AlertStateUnknown, !.newStateDate = t]

\* sess.Insert(bean): every column is written, the id is the next autoincrement
Insert(s, bean) ==
  Exec(s, [s.db EXCEPT !.alert = @ \cup {[bean EXCEPT !.id = s.db.nextAlertId]},
                       !.nextAlertId = @ + 1],
       {"alert"})

\* the alert's id once updateAlerts matched or inserted it
AlertIdOf(existingAlerts, a, s) ==
  LET k == FirstMatch(existingAlerts, a)
  IN  IF k # 0 THEN existingAlerts[k].id ELSE s.db.nextAlertId

\* updateAlerts, one alert: update the matched row if it has updates, insert otherwise
writeAlert(existingAlerts, a, s, t) ==
  LET k == FirstMatch(existingAlerts, a)
  IN  IF k # 0
        THEN IF ContainsUpdates(existingAlerts[k], a)
               THEN Debug(UpdateById(s, existingAlerts[k].id,
                                     UpdatedAlert(a, existingAlerts[k], t), {"message", "for"}),
                          "Alert updated", existingAlerts[k].id)
               ELSE s
        ELSE Debug(Insert(s, InsertedAlert(a, t)), "Alert inserted", s.db.nextAlertId)

\* updateAlerts, one alert: its tag links and notification links, replaced
writeLinks(a, alertId, s) ==
  LET s1 == Exec(s, [s.db EXCEPT !.alert_rule_tag = BagDelete(@, alertId)],
                 IF \E r \in DOMAIN s.db.alert_rule_tag : r.alertId = alertId
                   THEN {"alert_rule_tag"} ELSE {})
      s2 == insertTags(s1, GetTagsFromSettings(a), alertId)
      s3 == Exec(s2, [s2.db EXCEPT !.alert_rule_notification = BagDelete(@, alertId)],
                 IF \E r \in DOMAIN s2.db.alert_rule_notification : r.alertId = alertId
                   THEN {"alert_rule_notification"} ELSE {})
  IN  insertNotifications(s3, alertId, a.orgId, GetNotificationsFromSettings(a))

RECURSIVE updateAlertsFrom(_, _, _, _, _)
updateAlertsFrom(existingAlerts, alerts, i, s, t) ==
  IF i > Len(alerts) \/ s.err # NoErr THEN s
  ELSE updateAlertsFrom(
         existingAlerts, alerts, i + 1,
         writeLinks(alerts[i], AlertIdOf(existingAlerts, alerts[i], s),
                    writeAlert(existingAlerts, alerts[i], s, t)),
         t)

updateAlerts(existingAlerts, alerts, s, t) == updateAlertsFrom(existingAlerts, alerts, 1, s, t)

RECURSIVE deleteMissingFrom(_, _, _, _)
deleteMissingFrom(existingAlerts, alerts, i, s) ==
  IF i > Len(existingAlerts) \/ s.err # NoErr THEN s
  ELSE deleteMissingFrom(
         existingAlerts, alerts, i + 1,
         IF \E k \in DOMAIN alerts : existingAlerts[i].panelId = alerts[k].panelId
           THEN s
           ELSE deleteAlertByIdInternal(existingAlerts[i].id, s))

deleteMissingAlerts(existingAlerts, alerts, s) == deleteMissingFrom(existingAlerts, alerts, 1, s)

\* GetAlertsByDashboardId2: the Find is a statement of the session
GetAlertsByDashboardId2(s) == Exec(s, s.db, {})

\* the callback SaveAlerts runs in its transaction; existingAlerts is what the Find returned
SaveAlertsSession(db, existingAlerts, alerts, failAt, t) ==
  deleteMissingAlerts(
    existingAlerts, alerts,
    updateAlerts(existingAlerts, alerts, GetAlertsByDashboardId2(Begin(db, failAt)), t))

\* what the statements left, whatever the callback returned
SaveAlertsNoRollback(db, s) == s.db

\* the database SaveAlerts leaves
SaveAlertsCommit(db, s) == inTransaction(db, s)

\* the two tests in the other order
TransitionErrorSameFirst(a, cmd) ==
  IF a.state = cmd.state THEN ErrRequiresNewState
  ELSE IF a.state = AlertStatePaused THEN ErrCannotChangeStateOnPausedAlert
  ELSE NoErr

\* the test for a new state left out
TransitionErrorPausedOnly(a, cmd) ==
  IF a.state = AlertStatePaused THEN ErrCannotChangeStateOnPausedAlert ELSE NoErr

\* SetAlertState's two refusals, in the order the code tests them
TransitionError(a, cmd) ==
  IF a.state = AlertStatePaused THEN ErrCannotChangeStateOnPausedAlert
  ELSE IF a.state = cmd.state THEN ErrRequiresNewState
  ELSE NoErr

\* the counter left as it was
TransitionedAlertNoCount(a, cmd, t) ==
  [a EXCEPT !.state = cmd.state,
            !.newStateDate = t,
            !.evalData = cmd.evalData,
            !.executionError = IF cmd.error = "" THEN " " ELSE cmd.error]

\* the alert as SetAlertState hands it to Update
TransitionedAlert(a, cmd, t) ==
  [a EXCEPT !.state = cmd.state,
            !.stateChanges = @ + 1,
            !.newStateDate = t,
            !.evalData = cmd.evalData,
            !.executionError = IF cmd.error = "" THEN " " ELSE cmd.error]

\* the callback SetAlertState runs in its transaction
SetAlertStateSession(db, cmd, failAt, t) ==
  LET s1   == Exec(Begin(db, failAt), db, {})
      rows == {r \in db.alert : r.id = cmd.alertId}
  IN  IF s1.err # NoErr THEN s1
      ELSE IF rows = {} THEN Fail(s1, ErrCouldNotFindAlert)
      ELSE LET a == CHOOSE r \in rows : TRUE
           IN  IF TransitionError(a, cmd) # NoErr THEN Fail(s1, TransitionError(a, cmd))
               ELSE LET b  == TransitionedAlert(a, cmd, t)
                        s2 == UpdateById(s1, a.id, b, {})
                    IN  IF s2.err # NoErr THEN s2 ELSE [s2 EXCEPT !.result = {b}]

\* the row written first, on the engine, and the tests made after it
SetAlertStateWriteFirst(db, cmd, failAt, t) ==
  LET s == SetAlertStateSession(db, cmd, failAt, t)
  IN  [s EXCEPT !.db =
         [db EXCEPT !.alert =
            {IF r.id = cmd.alertId THEN TransitionedAlert(r, cmd, t) ELSE r : r \in @}]]

\* SetAlertState: the callback in its transaction; the session, with the database
\* as the transaction leaves it
SetAlertStateTx(db, cmd, failAt, t) ==
  LET s == SetAlertStateSession(db, cmd, failAt, t)
  IN  [s EXCEPT !.db = inTransaction(db, s)]

\* only the rows the command moves: a pause skips paused rows, an unpause the others
PauseRowsFromOtherState(s, ids, paused, t) ==
  LET newState == IF paused THEN AlertStatePaused ELSE AlertStateUnknown
      moved == {r \in s.db.alert : r.id \in ids /\ (r.state = AlertStatePaused) # paused}
      s1 == Exec(s, [s.db EXCEPT !.alert =
                       {IF r \in moved
                          THEN [r EXCEPT !.state = newState, !.newStateDate = t]
                          ELSE r : r \in @}],
                 IF moved # {} THEN {"alert"} ELSE {})
  IN  IF s1.err # NoErr THEN s1 ELSE [s1 EXCEPT !.count = Cardinality(moved)]

\* UPDATE alert SET state = ?, new_state_date = ? WHERE id IN (...)
PauseRows(s, ids, paused, t) ==
  LET newState == IF paused THEN AlertStatePaused ELSE AlertStateUnknown
      s1 == Exec(s, [s.db EXCEPT !.alert =
                       {IF r.id \in ids
                          THEN [r EXCEPT !.state = newState, !.newStateDate = t]
                          ELSE r : r \in @}],
                 IF \E r \in s.db.alert : r.id \in ids THEN {"alert"} ELSE {})
  IN  IF s1.err # NoErr THEN s1
      ELSE [s1 EXCEPT !.count = Cardinality({r \in s.db.alert : r.id \in ids})]

\* the test for an empty list left out
PauseAlertSessionNoCheck(db, alertIds, paused, failAt, t) ==
  PauseRows(Begin(db, failAt), {alertIds[i] : i \in DOMAIN alertIds}, paused, t)

\* the callback PauseAlert runs in its transaction
PauseAlertSession(db, alertIds, paused, failAt, t) ==
  IF Len(alertIds) = 0 THEN Fail(Begin(db, failAt), ErrNoAlertIds)
  ELSE PauseRows(Begin(db, failAt), {alertIds[i] : i \in DOMAIN alertIds}, paused, t)

\* the callback PauseAllAlerts runs in its transaction
PauseAllAlertsSession(db, paused, failAt, t) ==
  PauseRows(Begin(db, failAt), {r.id : r \in db.alert}, paused, t)

\* time.ParseDuration on the texts the commands carry here: whether it parsed, and
\* the duration in seconds
ParseDuration(text) ==
  IF text = "1m" THEN [ok |-> TRUE, d |-> 60]
  ELSE IF text = "0" THEN [ok |-> TRUE, d |-> 0]
  ELSE [ok |-> FALSE, d |-> 0]

\* simplejson.NewFromAny(settings): the command as a document, with its tags and
\* its notifications
CommandDoc(cmd) ==
  [isNil |-> FALSE, alertRuleTags |-> cmd.alertRuleTags, notifications |-> cmd.notifications,
   data |-> cmd.name]

\* the alert CreateAlert inserts
CreatedAlert(cmd, t) ==
  [Alert(cmd.orgId, 0, 0, cmd.name, "", AlertStateUnknown, CommandDoc(cmd))
     EXCEPT !.frequency = cmd.frequency, !.for = ParseDuration(cmd.for).d,
            !.created = t, !.updated = t, !.newStateDate = t]

\* CreateAlert: the duration is parsed before the transaction begins
CreateAlertSession(db, cmd, failAt, t) ==
  IF ~ParseDuration(cmd.for).ok THEN Fail(Begin(db, failAt), ErrInvalidDuration)
  ELSE LET id == db.nextAlertId
           s1 == Debug(Insert(Begin(db, failAt), CreatedAlert(cmd, t)), "Alert inserted", id)
           s2 == insertTags(s1, cmd.alertRuleTags, id)
           s3 == insertNotifications(s2, id, cmd.orgId, cmd.notifications)
       IN  IF s3.err # NoErr THEN s3
           ELSE [s3 EXCEPT !.result = {[CreatedAlert(cmd, t) EXCEPT !.id = id]}]

\* the state set as CreateAlert sets it
UpdatedAlertOfCommandUnknown(cmd, t) ==
  [Alert(cmd.orgId, 0, 0, cmd.name, "", AlertStateUnknown, CommandDoc(cmd))
     EXCEPT !.id = cmd.id, !.frequency = cmd.frequency, !.for = ParseDuration(cmd.for).d,
            !.updated = t]

\* the alert UpdateAlert hands to Update: the fields of the command, every other
\* field zero
UpdatedAlertOfCommand(cmd, t) ==
  [Alert(cmd.orgId, 0, 0, cmd.name, "", "", CommandDoc(cmd))
     EXCEPT !.id = cmd.id, !.frequency = cmd.frequency, !.for = ParseDuration(cmd.for).d,
            !.updated = t]

\* the callback UpdateAlert runs in its transaction, on the alert built before it
UpdateAlertCallback(s1, cmd, bean) ==
  LET s2 == Debug(UpdateById(s1, bean.id, bean, {"message", "for"}),
                  "Alert updated", bean.id)
      s3 == Exec(s2, [s2.db EXCEPT !.alert_rule_tag = BagDelete(@, bean.id)],
                 IF \E r \in DOMAIN s2.db.alert_rule_tag : r.alertId = bean.id
                   THEN {"alert_rule_tag"} ELSE {})
      s4 == insertTags(s3, cmd.alertRuleTags, bean.id)
      s5 == Exec(s4, [s4.db EXCEPT !.alert_rule_notification = BagDelete(@, bean.id)],
                 IF \E r \in DOMAIN s4.db.alert_rule_notification : r.alertId = bean.id
                   THEN {"alert_rule_notification"} ELSE {})
      s6 == insertNotifications(s5, cmd.id, cmd.orgId, cmd.notifications)
  IN  IF s6.err # NoErr THEN s6 ELSE [s6 EXCEPT !.result = {bean}]

\* UpdateAlert with no other command between its parts: x.Exist on the id (an id
\* that is not zero), the duration parsed, then the transaction
UpdateAlertSession(db, cmd, failAt, t) ==
  LET s1 == Exec(Begin(db, failAt), db, {})
  IN  IF s1.err # NoErr THEN s1
      ELSE IF ~\E r \in db.alert : r.id = cmd.id THEN Fail(s1, ErrCannotFindAlert)
      ELSE IF ~ParseDuration(cmd.for).ok THEN Fail(s1, ErrInvalidDuration)
      ELSE UpdateAlertCallback(s1, cmd, UpdatedAlertOfCommand(cmd, t))

\* the callback DeleteAlert runs in its transaction
DeleteAlertSession(db, id, failAt) == deleteAlertByIdInternal(id, Begin(db, failAt))

\* GetAlertById: the row as stored
GetAlertByIdResult(db, id) == {r \in db.alert : r.id = id}

\* GetAllAlertQueryHandler: select * from alert
GetAllAlertsResult(db) == db.alert

\* table dashboard: the ids that have a row
DashboardTable == {1, 2}

\* the tokens joined by AND
StateFilterAllTokens(r, state) ==
  IF Len(state) > 0 /\ ~(~state[1].hasNot /\ state[1].v = "all")
    THEN \A i \in DOMAIN state :
           IF state[i].hasNot THEN r.state # state[i].v ELSE r.state = state[i].v
    ELSE TRUE

\* the state filter of HandleAlertsQuery: a token is the text with its "not_" prefix
\* split off, [hasNot, v]
StateFilter(r, state) ==
  IF Len(state) > 0 /\ ~(~state[1].hasNot /\ state[1].v = "all")
    THEN \E i \in DOMAIN state :
           IF state[i].hasNot THEN r.state # state[i].v ELSE r.state = state[i].v
    ELSE TRUE

\* AlertListItemDTO of a row, the blank execution_error made empty
AlertListItemDTO(r) ==
  [id |-> r.id, dashboardId |-> r.dashboardId, panelId |-> r.panelId, name |-> r.name,
   state |-> r.state, newStateDate |-> r.newStateDate, evalData |-> r.evalData,
   executionError |-> IF r.executionError = " " THEN "" ELSE r.executionError]

\* HandleAlertsQuery for an admin user, an empty name query and no limit; the
\* rows as a set (ORDER BY name left out)
HandleAlertsQueryResult(db, query) ==
  {AlertListItemDTO(r) :
     r \in {a \in db.alert :
              /\ query.standaloneAlertsEnabled \/ a.dashboardId \in DashboardTable
              /\ a.orgId = query.orgId
              /\ Len(query.dashboardIDs) > 0 =>
                   \E i \in DOMAIN query.dashboardIDs : a.dashboardId = query.dashboardIDs[i]
              /\ query.panelId # 0 => a.panelId = query.panelId
              /\ StateFilter(a, query.state)}}

\* ------------------------------------------------------------------ actions
Commit(db) ==
  /\ alert' = db.alert
  /\ tag' = db.tag
  /\ alert_rule_tag' = db.alert_rule_tag
  /\ alert_rule_notification' = db.alert_rule_notification
  /\ annotation' = db.annotation
  /\ alert_notification_state' = db.alert_notification_state
  /\ nextAlertId' = db.nextAlertId

\* what a command leaves in `last`
Returned(op, id, state, alerts, s) ==
  [op |-> op, id |-> id, state |-> state, alerts |-> alerts, err |-> s.err,
   result |-> s.result, count |-> s.count, n |-> s.n,
   writes |-> IF s.err = NoErr THEN s.writes ELSE {},
   log |-> IF s.err = NoErr THEN s.log ELSE {}]

Init ==
  /\ alert = {}
  /\ tag = {}
  /\ alert_rule_tag = EmptyBag
  /\ alert_rule_notification = EmptyBag
  /\ annotation = {}
  /\ alert_notification_state = {}
  /\ nextAlertId = 1
  /\ now = 1
  /\ last = Returned("init", 0, "", <<>>, Begin(DB, 0))
  /\ updating = {}

SaveAlerts(dashboardId, alerts, failAt) ==
  \E existingAlerts \in Orderings({r \in alert : r.dashboardId = dashboardId}) :
    LET s == SaveAlertsSession(DB, existingAlerts, alerts, failAt, now)
    IN  /\ failAt # 0 => s.err = ErrStorage
        /\ s.db.nextAlertId <= MaxAlertId + 1
        /\ Commit(SaveAlertsCommit(DB, s))
        /\ last' = Returned("SaveAlerts", dashboardId, "", alerts, s)
        /\ UNCHANGED <<now, updating>>

SetAlertState(cmd, failAt) ==
  LET s == SetAlertStateTx(DB, cmd, failAt, now)
  IN  /\ failAt # 0 => s.err = ErrStorage
      /\ \A r \in s.db.alert : r.stateChanges <= MaxStateChanges
      /\ Commit(s.db)
      /\ last' = Returned("SetAlertState", cmd.alertId, cmd.state, <<>>, s)
      /\ UNCHANGED <<now, updating>>

PauseAlert(alertIds, paused, failAt) ==
  LET s == PauseAlertSession(DB, alertIds, paused, failAt, now)
  IN  /\ failAt # 0 => s.err = ErrStorage
      /\ Commit(inTransaction(DB, s))
      /\ last' = Returned("PauseAlert", 0, IF paused THEN "paused" ELSE "unpaused", alertIds, s)
      /\ UNCHANGED <<now, updating>>

PauseAllAlerts(paused, failAt) ==
  LET s == PauseAllAlertsSession(DB, paused, failAt, now)
  IN  /\ failAt # 0 => s.err = ErrStorage
      /\ Commit(inTransaction(DB, s))
      /\ last' = Returned("PauseAllAlerts", 0, IF paused THEN "paused" ELSE "unpaused", <<>>, s)
      /\ UNCHANGED <<now, updating>>

DeleteAlert(id, failAt) ==
  LET s == DeleteAlertSession(DB, id, failAt)
  IN  /\ failAt # 0 => s.err = ErrStorage
      /\ Commit(inTransaction(DB, s))
      /\ last' = Returned("DeleteAlert", id, "", <<>>, s)
      /\ UNCHANGED <<now, updating>>

\* deleteAlertDefinition in the transaction of the dashboard's deletion
DeleteDashboard(dashboardId, failAt) ==
  \E alerts \in Orderings({r \in alert : r.dashboardId = dashboardId}) :
    LET s == deleteAlertDefinition(dashboardId, alerts, Begin(DB, failAt))
    IN  /\ failAt # 0 => s.err = ErrStorage
        /\ Commit(inTransaction(DB, s))
        /\ last' = Returned("DeleteDashboard", dashboardId, "", <<>>, s)
        /\ UNCHANGED <<now, updating>>

CreateAlert(cmd, failAt) ==
  LET s == CreateAlertSession(DB, cmd, failAt, now)
  IN  /\ failAt # 0 => s.err = ErrStorage
      /\ s.db.nextAlertId <= MaxAlertId + 1
      /\ Commit(inTransaction(DB, s))
      /\ last' = Returned("CreateAlert", 0, "", <<cmd>>, s)
      /\ UNCHANGED <<now, updating>>

UpdateAlert(cmd, failAt) ==
  LET s == UpdateAlertSession(DB, cmd, failAt, now)
  IN  /\ failAt # 0 => s.err = ErrStorage
      /\ Commit(inTransaction(DB, s))
      /\ last' = Returned("UpdateAlert", cmd.id, "", <<cmd>>, s)
      /\ UNCHANGED <<now, updating>>

\* UpdateAlert up to its transaction: x.Exist on the engine, the duration parsed and
\* the alert built with the clock's value; the call returns here if no rule has the
\* id or the duration is malformed
UpdateAlertExist(cmd) ==
  IF ~\E r \in alert : r.id = cmd.id
    THEN /\ last' = Returned("UpdateAlert", cmd.id, "", <<cmd>>,
                             Fail(Begin(DB, 0), ErrCannotFindAlert))
         /\ UNCHANGED <<tables, now, updating>>
  ELSE IF ~ParseDuration(cmd.for).ok
    THEN /\ last' = Returned("UpdateAlert", cmd.id, "", <<cmd>>,
                             Fail(Begin(DB, 0), ErrInvalidDuration))
         /\ UNCHANGED <<tables, now, updating>>
  ELSE /\ Cardinality(updating) < MaxUpdating
       /\ updating' = updating \cup {[cmd |-> cmd, alert |-> UpdatedAlertOfCommand(cmd, now)]}
       /\ UNCHANGED <<tables, now, last>>

\* UpdateAlert's transaction, on the database as it is by then
UpdateAlertInTransaction(cmd, failAt) ==
  \E u \in updating :
    LET s == UpdateAlertCallback(Begin(DB, failAt), u.cmd, u.alert)
    IN  /\ u.cmd = cmd
        /\ failAt # 0 => s.err = ErrStorage
        /\ Commit(inTransaction(DB, s))
        /\ last' = Returned("UpdateAlert", cmd.id, "", <<cmd>>, s)
        /\ updating' = updating \ {u}
        /\ now' = now

\* the caller of SaveAlerts, the dashboard's save: it refuses the dashboard for an
\* alert that is not ValidToSave and hands the alerts to SaveAlerts otherwise
UpdateDashboardAlerts(dashboardId, alerts, failAt) ==
  IF \E i \in DOMAIN alerts : ~ValidToSave(alerts[i])
    THEN /\ failAt = 0
         /\ last' = Returned("UpdateDashboardAlerts", dashboardId, "", alerts,
                             Fail(Begin(DB, 0), ErrDashboardContainsInvalidAlertData))
         /\ UNCHANGED <<tables, now, updating>>
    ELSE SaveAlerts(dashboardId, alerts, failAt)

GetAlertById(id) ==
  LET res == GetAlertByIdResult(DB, id)
  IN  /\ last' = Returned("GetAlertById", id, "", <<>>,
                          IF res = {} THEN Fail(Begin(DB, 0), ErrGetCouldNotFindAlert)
                          ELSE [Begin(DB, 0) EXCEPT !.result = res])
      /\ UNCHANGED <<tables, now, updating>>

GetAllAlertQueryHandler ==
  /\ last' = Returned("GetAllAlerts", 0, "", <<>>, [Begin(DB, 0) EXCEPT !.result = GetAllAlertsResult(DB)])
  /\ UNCHANGED <<tables, now, updating>>

HandleAlertsQuery(query) ==
  /\ last' = Returned("SearchAlerts", query.orgId, "", <<query>>,
                      [Begin(DB, 0) EXCEPT !.result = HandleAlertsQueryResult(DB, query)])
  /\ UNCHANGED <<tables, now, updating>>

\* the alerting engine, outside this package: an evaluation of the rule saved an
\* annotation, a notifier recorded its state
SaveAnnotation(alertId) ==
  /\ \E r \in alert : r.id = alertId
  /\ annotation' = annotation \cup {[alertId |-> alertId]}
  /\ UNCHANGED <<alert, tag, alert_rule_tag, alert_rule_notification,
                 alert_notification_state, nextAlertId, now, last, updating>>

SetNotificationState(alertId) ==
  /\ \E r \in alert : r.id = alertId
  /\ alert_notification_state' = alert_notification_state \cup {[alertId |-> alertId]}
  /\ UNCHANGED <<alert, tag, alert_rule_tag, alert_rule_notification,
                 annotation, nextAlertId, now, last, updating>>

\* time passes between two commands
Tick ==
  /\ now < MaxClock
  /\ now' = now + 1
  /\ UNCHANGED <<tables, last, updating>>

\* ------------------------------------------------------------------ inputs
Settings1 == JsonDoc(<<"t1">>, <<"u1">>)

\* the alerts a dashboard's extractor hands to SaveAlerts (its own dashboard id,
\* the id zero), here with a state the extractor never sets
SaveAlertsInput(d, names) ==
  {Alert(1, d, p, n, "", AlertStateAlerting, Settings1) : p \in {1, 2}, n \in names}

SaveAlertsLists(d, names) ==
  UNION {[1..k -> SaveAlertsInput(d, names)] : k \in 0..MaxDesired}

\* ------------------------------------------------------------------ reconciliation
NextSave ==
  \/ \E d \in {1} : \E alerts \in SaveAlertsLists(d, {"a", "b"}) :
       SaveAlerts(d, alerts, 0)
  \/ PauseAllAlerts(TRUE, 0)
  \/ Tick

SpecSave == Init /\ [][NextSave]_vars

\* ------------------------------------------------------------------ failures and deletes
NextCascade ==
  \/ \E alerts \in SaveAlertsLists(1, {"a"}) : \E failAt \in 0..MaxFailAt :
       SaveAlerts(1, alerts, failAt)
  \/ SaveAlerts(2, <<Alert(1, 2, 1, "a", "", "", Settings1)>>, 0)
  \/ \E id \in 1..MaxAlertId : \E failAt \in 0..5 : DeleteAlert(id, failAt)
  \/ \E d \in DashboardTable : \E failAt \in 0..MaxFailAt : DeleteDashboard(d, failAt)
  \/ \E id \in 1..MaxAlertId : SaveAnnotation(id)
  \/ \E id \in 1..MaxAlertId : SetNotificationState(id)

SpecCascade == Init /\ [][NextCascade]_vars

\* ------------------------------------------------------------------ the state machine
\* what the result handler reports: an evaluation with matches and no error, or an
\* execution error with no evaluation data
SetAlertStateInput(ids, states) ==
  {[alertId |-> id, state |-> st, error |-> e.error, evalData |-> e.evalData] :
     id \in ids, st \in states,
     e \in {[error |-> "", evalData |-> EvalDoc("matches")],
            [error |-> "timeout", evalData |-> NilJson]}}

\* the first rule, and an id no rule has
StateIds == {1, MaxAlertId + 1}

PauseAlertInput == {<<>>, <<1>>, <<1, MaxAlertId + 1>>}

\* the dashboard's panel 1 alone, or its panels 1 and 2
StateAlerts(d) ==
  LET a(p) == Alert(1, d, p, "a", "", "", Settings1) IN {<<a(1)>>, <<a(1), a(2)>>}

NextState ==
  \/ \E d \in {1} : \E alerts \in StateAlerts(d) : SaveAlerts(d, alerts, 0)
  \/ \E cmd \in SetAlertStateInput(StateIds, AlertStateType) : \E failAt \in 0..2 :
       SetAlertState(cmd, failAt)
  \/ \E alertIds \in PauseAlertInput : \E paused \in BOOLEAN : \E failAt \in 0..1 :
       PauseAlert(alertIds, paused, failAt)
  \/ \E paused \in BOOLEAN : PauseAllAlerts(paused, 0)
  \/ Tick

SpecState == Init /\ [][NextState]_vars

\* ------------------------------------------------------------------ the read paths
\* the state tokens of a query: "all", "ok", "not_ok", "alerting"
StateTokens ==
  {[hasNot |-> FALSE, v |-> "all"], [hasNot |-> FALSE, v |-> AlertStateOK],
   [hasNot |-> TRUE, v |-> AlertStateOK], [hasNot |-> FALSE, v |-> AlertStateAlerting]}

\* no state filter, one token or two
StateFilters == {<<>>} \cup [1..1 -> StateTokens] \cup [1..2 -> StateTokens]

GetAlertsQueryInput ==
  [orgId : {1, 2}, state : StateFilters, dashboardIDs : {<<>>}, panelId : {0},
   standaloneAlertsEnabled : {FALSE}]

NextRead ==
  \/ \E d \in {1} : \E alerts \in SaveAlertsLists(d, {"a"}) :
       SaveAlerts(d, alerts, 0)
  \/ SaveAlerts(2, <<Alert(2, 2, 1, "a", "", "", Settings1)>>, 0)
  \/ \E cmd \in SetAlertStateInput(1..MaxAlertId, {AlertStateOK, AlertStateAlerting}) :
       SetAlertState(cmd, 0)
  \/ \E id \in 1..MaxAlertId : GetAlertById(id)
  \/ GetAllAlertQueryHandler
  \/ \E query \in GetAlertsQueryInput : HandleAlertsQuery(query)

SpecRead == Init /\ [][NextRead]_vars

\* ------------------------------------------------------------------ tags and notifications
\* the tags and the notification uids of a settings document or of a command: u1
\* is a channel of each org, u9 of none
LinkSets ==
  {[t |-> <<"t1">>, u |-> <<"u1">>],
   [t |-> <<"t2", "t1">>, u |-> <<"u1", "u9">>],
   [t |-> <<>>, u |-> <<"u9">>]}

\* the dashboard's alerts as its save hands them over: none, or the alert of one
\* panel, which may lack its org or its panel id or its settings
DashboardAlertsInput(d) ==
  {<<>>} \cup
  {<<Alert(o, d, p, "a", "", "", doc)>> :
     o \in {0, 1}, p \in {0, 1},
     doc \in {NilJson} \cup {JsonDoc(l.t, l.u) : l \in LinkSets}}

\* CreateAlertCommand and UpdateAlertCommand
AlertCommandInput(ids, orgs, names, frequencies, fors, links) ==
  {[id |-> id, orgId |-> o, name |-> n, frequency |-> f, for |-> d,
    alertRuleTags |-> l.t, notifications |-> l.u] :
     id \in ids, o \in orgs, n \in names, f \in frequencies, d \in fors, l \in links}

NextLinks ==
  \/ \E alerts \in DashboardAlertsInput(1) : UpdateDashboardAlerts(1, alerts, 0)
  \/ \E cmd \in AlertCommandInput({0}, {1, 2}, {"c"}, {10}, {"1m", "x"}, LinkSets) :
       CreateAlert(cmd, 0)
  \/ \E cmd \in AlertCommandInput(1..(MaxAlertId + 1), {1, 2}, {"c"}, {10}, {"1m"}, LinkSets) :
       UpdateAlert(cmd, 0)

SpecLinks == Init /\ [][NextLinks]_vars

\* ------------------------------------------------------------------ changed or not
\* the alert of the dashboard's one panel: its name, its message, its settings
\* (absent, or one of two documents) and the state the caller left in it
ChangeAlertsInput(d) ==
  {<<Alert(1, d, 1, n, m, st, doc)>> :
     n \in {"a", "b"}, m \in {"", "m"}, st \in {"", AlertStateAlerting},
     doc \in {NilJson, Settings1, JsonDoc(<<"t2">>, <<>>)}}

NextChange ==
  \/ \E alerts \in ChangeAlertsInput(1) : SaveAlerts(1, alerts, 0)
  \/ PauseAllAlerts(TRUE, 0)
  \/ Tick

SpecChange == Init /\ [][NextChange]_vars

\* ------------------------------------------------------------------ explicit updates
\* the commands that update a rule: the id of a rule or of none, with a name, a
\* frequency and a duration that may be malformed, or with an empty name, the
\* frequency zero and the duration zero
UpdateAlertInput ==
  AlertCommandInput(1..(MaxAlertId + 1), {1}, {"c"}, {10}, {"1m", "x"},
                    {[t |-> <<"t2">>, u |-> <<"u1">>]})
  \cup AlertCommandInput(1..(MaxAlertId + 1), {1}, {""}, {0}, {"0"},
                         {[t |-> <<"t2">>, u |-> <<"u1">>]})

NextUpdate ==
  \/ SaveAlerts(1, <<Alert(1, 1, 1, "a", "m", "", Settings1)>>, 0)
  \/ \E cmd \in AlertCommandInput({0}, {1}, {"s"}, {30}, {"1m"},
                                   {[t |-> <<"t1">>, u |-> <<>>]}) :
       CreateAlert(cmd, 0)
  \/ \E cmd \in SetAlertStateInput({1}, {AlertStateOK, AlertStateAlerting}) :
       SetAlertState(cmd, 0)
  \/ \E paused \in BOOLEAN : PauseAlert(<<1>>, paused, 0)
  \/ \E cmd \in UpdateAlertInput : UpdateAlert(cmd, 0)
  \/ Tick

SpecUpdate == Init /\ [][NextUpdate]_vars

\* ------------------------------------------------------------------ a rule's life
\* the dashboard's save with no alert, or with the alert of its panel 1 under one
\* of two names
LifeAlerts(d) ==
  {<<>>} \cup {<<Alert(1, d, 1, n, "", "", Settings1)>> : n \in {"a", "b"}}

\* an update that renames the rule, and one with an empty name and the frequency
\* zero, on the id of a rule or of none
LifeUpdateInput ==
  AlertCommandInput(1..(MaxAlertId + 1), {1}, {"c"}, {10}, {"1m"},
                    {[t |-> <<"t2">>, u |-> <<"u1">>]})
  \cup AlertCommandInput(1..(MaxAlertId + 1), {1}, {""}, {0}, {"0"},
                         {[t |-> <<>>, u |-> <<>>]})

NextLife ==
  \/ \E alerts \in LifeAlerts(1) : SaveAlerts(1, alerts, 0)
  \/ \E cmd \in AlertCommandInput({0}, {1}, {"s"}, {30}, {"1m"},
                                   {[t |-> <<"t1">>, u |-> <<>>]}) :
       CreateAlert(cmd, 0)
  \/ \E cmd \in SetAlertStateInput(1..MaxAlertId, {AlertStateAlerting, AlertStatePaused}) :
       cmd.error = "" /\ SetAlertState(cmd, 0)
  \/ \E alertIds \in {<<1>>, <<2>>} : \E paused \in BOOLEAN : PauseAlert(alertIds, paused, 0)
  \/ \E paused \in BOOLEAN : PauseAllAlerts(paused, 0)
  \/ \E cmd \in LifeUpdateInput : UpdateAlert(cmd, 0)

SpecLife == Init /\ [][NextLife]_vars

\* ------------------------------------------------------------------ concurrent callers
\* Callers run at once; the store runs their transactions one at a time, so a
\* behaviour is an interleaving of the transactions and of the part of UpdateAlert
\* that runs before its transaction.
RaceUpdateInput ==
  AlertCommandInput(1..(MaxAlertId + 1), {1}, {"c"}, {10}, {"1m", "x"},
                    {[t |-> <<"t2">>, u |-> <<"u1">>]})

NextRace ==
  \/ \E alerts \in {<<>>, <<Alert(1, 1, 1, "a", "", "", Settings1)>>} : SaveAlerts(1, alerts, 0)
  \/ \E cmd \in AlertCommandInput({0}, {1}, {"s"}, {30}, {"1m"},
                                   {[t |-> <<"t1">>, u |-> <<"u1">>]}) :
       CreateAlert(cmd, 0)
  \/ \E id \in 1..MaxAlertId : DeleteAlert(id, 0)
  \/ \E cmd \in RaceUpdateInput : UpdateAlertExist(cmd)
  \/ \E cmd \in RaceUpdateInput : \E failAt \in {0, 2} : UpdateAlertInTransaction(cmd, failAt)
  \/ Tick

SpecRace == Init /\ [][NextRace]_vars

\* ------------------------------------------------------------------ claims
\* the SetAlertState command of this step, when the step is one and the store
\* did not fail
SetAlertStateStep(cmd) ==
  /\ last'.op = "SetAlertState"
  /\ last'.id = cmd.alertId
  /\ last'.state = cmd.state
  /\ SetAlertState(cmd, 0)

AllSetAlertStateInput == SetAlertStateInput(1..(MaxAlertId + 1), AlertStateType)

\* C1: SetAlertState on a rule whose state is paused fails with
\* ErrCannotChangeStateOnPausedAlert, whatever the new state, paused included.
C1_PausedRefusesEveryState ==
  [][\A cmd \in AllSetAlertStateInput :
       (SetAlertStateStep(cmd)
        /\ \E r \in alert : r.id = cmd.alertId /\ r.state = AlertStatePaused)
       => last'.err = ErrCannotChangeStateOnPausedAlert /\ UNCHANGED tables]_vars

\* a rule paused after a transition was asked to become paused
C1_Witness ==
  /\ last.op = "SetAlertState"
  /\ last.err = ErrCannotChangeStateOnPausedAlert
  /\ last.state = AlertStatePaused
  /\ \E r \in alert : r.id = last.id /\ r.state = AlertStatePaused /\ r.stateChanges > 0

\* C2 as stated: SetAlertState to the rule's current state fails with
\* ErrRequiresNewState, in each of the six states.
C2_SameStateRefused ==
  [][\A cmd \in AllSetAlertStateInput :
       (SetAlertStateStep(cmd)
        /\ \E r \in alert : r.id = cmd.alertId /\ r.state = cmd.state)
       => last'.err = ErrRequiresNewState]_vars

\* C2 amended: SetAlertState to the rule's current state fails with
\* ErrRequiresNewState in each of the five states other than paused, and changes
\* nothing.
C2_SameStateRefusedUnlessPaused ==
  [][\A cmd \in AllSetAlertStateInput :
       (SetAlertStateStep(cmd)
        /\ \E r \in alert : r.id = cmd.alertId /\ r.state = cmd.state
                             /\ r.state # AlertStatePaused)
       => last'.err = ErrRequiresNewState /\ UNCHANGED tables]_vars

\* a rule in state ok, which it reached by a transition, was asked to become ok
C2_Witness ==
  /\ last.op = "SetAlertState"
  /\ last.err = ErrRequiresNewState
  /\ last.state = AlertStateOK
  /\ \E r \in alert : r.id = last.id /\ r.state = AlertStateOK

\* C3: SetAlertState on a rule that is not paused, to a state other than its own,
\* succeeds: the row has the new state, state_changes one more, new_state_date
\* the clock's value and the command's eval data.
C3_TransitionApplied ==
  [][\A cmd \in AllSetAlertStateInput :
       \A r \in alert :
         (SetAlertStateStep(cmd)
          /\ r.id = cmd.alertId /\ r.state # AlertStatePaused /\ r.state # cmd.state)
         => /\ last'.err = NoErr
            /\ \E r2 \in alert' :
                 /\ r2.id = r.id
                 /\ r2.state = cmd.state
                 /\ r2.stateChanges = r.stateChanges + 1
                 /\ r2.newStateDate = now
                 /\ r2.evalData = cmd.evalData
            /\ \A o \in alert : o.id # r.id => o \in alert']_vars

\* the rule's second transition, made after the clock advanced, beside another rule
C3_Witness ==
  /\ last.op = "SetAlertState"
  /\ last.err = NoErr
  /\ \E r \in alert :
       /\ r.id = last.id
       /\ r.state = last.state
       /\ r.stateChanges = 2
       /\ r.newStateDate = 2
       /\ r.created = 1
       /\ ~r.evalData.isNil
  /\ \E o \in alert : o.id # last.id

\* C4: no caller sees the blank execution_error: the alert SetAlertState returns
\* and the rows GetAlertById, GetAllAlerts and SearchAlerts return carry "" for it.
C4_NoBlankExecutionError ==
  last.op \in {"SetAlertState", "GetAlertById", "GetAllAlerts", "SearchAlerts"}
    => \A r \in last.result : r.executionError # " "

\* the successful SaveAlerts command of this step, when the step is one
SaveAlertsStep ==
  /\ last'.op = "SaveAlerts"
  /\ last'.err = NoErr
  /\ SaveAlerts(last'.id, last'.alerts, 0)

PanelIds(alerts) == {alerts[i].panelId : i \in DOMAIN alerts}

\* the rows of the dashboard in the table a
OfDashboard(a, d) == {r \in a : r.dashboardId = d}

\* C5: a SaveAlerts that returns an error leaves alert, alert_rule_tag,
\* alert_rule_notification, annotation and alert_notification_state as they were,
\* whichever statement failed.
C5_SaveAlertsAllOrNothing ==
  [][\A failAt \in 1..MaxFailAt :
       (/\ last'.op = "SaveAlerts"
        /\ last'.err # NoErr
        /\ SaveAlerts(last'.id, last'.alerts, failAt))
       => UNCHANGED <<alert, alert_rule_tag, alert_rule_notification, annotation,
                      alert_notification_state>>]_vars

\* a SaveAlerts failed at its sixth statement, the last delete of a cascade, on a
\* rule that had an annotation, a notification state and links
C5_Witness ==
  /\ last.op = "SaveAlerts"
  /\ last.err = ErrStorage
  /\ last.n = 6
  /\ last.alerts = <<>>
  /\ \E r \in alert :
       /\ [alertId |-> r.id] \in annotation
       /\ [alertId |-> r.id] \in alert_notification_state
       /\ \E l \in DOMAIN alert_rule_tag : l.alertId = r.id
       /\ \E l \in DOMAIN alert_rule_notification : l.alertId = r.id

\* C6: a successful SaveAlerts leaves every persisted rule of the dashboard whose
\* panel is among the desired ones with its id, its created time and its state,
\* whatever state the desired rule carried and whether or not it was written.
C6_IdentityPreserved ==
  [][SaveAlertsStep =>
       \A r \in OfDashboard(alert, last'.id) :
         r.panelId \in PanelIds(last'.alerts)
           => \E r2 \in alert' :
                /\ r2.id = r.id
                /\ r2.panelId = r.panelId
                /\ r2.created = r.created
                /\ r2.state = r.state]_vars

\* a paused rule created at time 1 was rewritten at time 2 from a desired rule
\* that carried the state alerting
C6_Witness ==
  /\ last.op = "SaveAlerts"
  /\ last.err = NoErr
  /\ \E r \in alert :
       /\ [msg |-> "Alert updated", id |-> r.id] \in last.log
       /\ r.state = AlertStatePaused
       /\ r.created = 1
       /\ r.updated = 2
       /\ \E i \in DOMAIN last.alerts :
            last.alerts[i].panelId = r.panelId /\ last.alerts[i].state = AlertStateAlerting

\* C7: a successful SaveAlerts with distinct desired panels leaves the dashboard
\* one rule for each desired panel and none for another panel; the rule of a panel
\* that had none is new, in state unknown, with created, updated and
\* new_state_date the clock's value; the rule of a panel that had one is as it was
\* unless the desired rule has updates.
C7_DiffCorrect ==
  [][(SaveAlertsStep
      /\ \A i, j \in DOMAIN last'.alerts :
           last'.alerts[i].panelId = last'.alerts[j].panelId => i = j)
     => LET d == last'.id
            D == PanelIds(last'.alerts)
            P == {r.panelId : r \in OfDashboard(alert, d)}
        IN  /\ \A p \in D : Cardinality({r \in OfDashboard(alert', d) : r.panelId = p}) = 1
            /\ \A r \in OfDashboard(alert', d) : r.panelId \in D
            /\ \A r \in OfDashboard(alert', d) :
                 r.panelId \notin P
                   => /\ r.state = AlertStateUnknown
                      /\ r.created = now /\ r.updated = now /\ r.newStateDate = now
                      /\ \A o \in alert : o.id # r.id
            /\ \A r \in OfDashboard(alert, d) :
                 \A i \in DOMAIN last'.alerts :
                   (last'.alerts[i].panelId = r.panelId /\ ~ContainsUpdates(r, last'.alerts[i]))
                     => r \in alert']_vars

\* C8: a successful SaveAlerts that follows a successful SaveAlerts of the same
\* dashboard with the same desired rules changes rows of no table and leaves every
\* rule's updated time and state as they were.
C8_SecondSaveWritesNothing ==
  [][(/\ last.op = "SaveAlerts"
      /\ last.err = NoErr
      /\ last'.id = last.id
      /\ last'.alerts = last.alerts
      /\ SaveAlertsStep)
     => /\ last'.writes = {}
        /\ \A r2 \in alert' :
             \E r \in alert : r.id = r2.id /\ r.updated = r2.updated /\ r.state = r2.state]_vars

\* C9: no two persisted rules of a dashboard are on the same panel.
C9_OneRulePerPanel ==
  \A r1, r2 \in alert :
    (r1.dashboardId # 0 /\ r1.dashboardId = r2.dashboardId /\ r1.panelId = r2.panelId)
      => r1.id = r2.id

\* no row of the five tables (given as they are after the step) names one of ids
Gone(ids, a, an, ans, art, arn) ==
  /\ \A r \in a : r.id \notin ids
  /\ \A r \in an : r.alertId \notin ids
  /\ \A r \in ans : r.alertId \notin ids
  /\ \A r \in DOMAIN art : r.alertId \notin ids
  /\ \A r \in DOMAIN arn : r.alertId \notin ids

\* the link rows of b that name none of ids
LinksOfOthers(b, ids) == [x \in {y \in DOMAIN b : y.alertId \notin ids} |-> b[x]]

\* the rows that name none of ids are, after the step, what they were
OthersKept(ids) ==
  /\ alert' = {r \in alert : r.id \notin ids}
  /\ annotation' = {r \in annotation : r.alertId \notin ids}
  /\ alert_notification_state' = {r \in alert_notification_state : r.alertId \notin ids}
  /\ alert_rule_tag' = LinksOfOthers(alert_rule_tag, ids)
  /\ alert_rule_notification' = LinksOfOthers(alert_rule_notification, ids)

\* C10: once DeleteAlert, the deletion of its dashboard or its removal from the
\* desired rules of SaveAlerts destroyed a rule, no row of alert, annotation,
\* alert_notification_state, alert_rule_tag or alert_rule_notification names it;
\* DeleteAlert and the dashboard's deletion leave the rows of other rules alone.
C10_CascadeDelete ==
  [][/\ (last'.op = "DeleteAlert" /\ last'.err = NoErr /\ DeleteAlert(last'.id, 0))
          => /\ Gone({last'.id}, alert', annotation', alert_notification_state',
                     alert_rule_tag', alert_rule_notification')
             /\ OthersKept({last'.id})
     /\ (last'.op = "DeleteDashboard" /\ last'.err = NoErr /\ DeleteDashboard(last'.id, 0))
          => LET ids == {r.id : r \in OfDashboard(alert, last'.id)}
             IN  /\ Gone(ids, alert', annotation', alert_notification_state',
                         alert_rule_tag', alert_rule_notification')
                 /\ OthersKept(ids)
     /\ SaveAlertsStep
          => LET ids == {r.id : r \in {x \in OfDashboard(alert, last'.id) :
                                         x.panelId \notin PanelIds(last'.alerts)}}
             IN  Gone(ids, alert', annotation', alert_notification_state',
                      alert_rule_tag', alert_rule_notification')]_vars

\* DeleteAlert removed a rule with its annotation, its notification state and its
\* links, and a rule of another dashboard is left with its own
C10_Witness ==
  /\ last.op = "DeleteAlert"
  /\ last.err = NoErr
  /\ last.writes = {"alert", "annotation", "alert_notification_state",
                    "alert_rule_tag", "alert_rule_notification"}
  /\ \E r \in alert :
       /\ r.id # last.id
       /\ [alertId |-> r.id] \in annotation
       /\ \E l \in DOMAIN alert_rule_tag : l.alertId = r.id

\* the ids a PauseAlertCommand lists
IdsOf(alertIds) == {alertIds[i] : i \in DOMAIN alertIds}

\* C11: a PauseAlert that pauses a non-empty list of ids, followed by the PauseAlert
\* that unpauses the same list, leaves every listed rule in state unknown, whatever
\* its state was before the pause; a PauseAlert with no ids returns
\* ErrNoAlertIds and changes nothing.
C11_PauseRoundTrip ==
  [][/\ \A ids \in PauseAlertInput :
          (/\ Len(ids) > 0
           /\ last.op = "PauseAlert" /\ last.state = "paused" /\ last.err = NoErr
           /\ last.alerts = ids
           /\ last'.op = "PauseAlert" /\ last'.state = "unpaused" /\ last'.alerts = ids
           /\ PauseAlert(ids, FALSE, 0))
          => /\ last'.err = NoErr
             /\ \A r \in alert : r.id \in IdsOf(ids) => r.state = AlertStatePaused
             /\ \A r \in alert' : r.id \in IdsOf(ids) => r.state = AlertStateUnknown
     /\ \A paused \in BOOLEAN :
          (last'.op = "PauseAlert" /\ last'.alerts = <<>> /\ PauseAlert(<<>>, paused, 0))
          => last'.err = ErrNoAlertIds /\ UNCHANGED tables]_vars

\* a rule that made its one transition, away from unknown, before it was paused
\* is unknown once the unpause of its id returned
C11_Witness ==
  /\ last.op = "PauseAlert"
  /\ last.state = "unpaused"
  /\ last.err = NoErr
  /\ last.count = 1
  /\ \E r \in alert :
       /\ r.id \in IdsOf(last.alerts)
       /\ r.state = AlertStateUnknown
       /\ r.stateChanges = 1
       /\ r.newStateDate = 2

\* the rows of a are, in a2, what a pause or unpause of ids makes of them: the
\* listed rows have the new state, the others are as they were
PausedTo(a, a2, ids, paused) ==
  /\ {r.id : r \in a2} = {r.id : r \in a}
  /\ \A r \in a :
       IF r.id \in ids
         THEN \E r2 \in a2 :
                /\ r2.id = r.id
                /\ r2.state = IF paused THEN AlertStatePaused ELSE AlertStateUnknown
         ELSE r \in a2

\* C12: a successful PauseAlert sets every listed rule that exists to paused or
\* unknown whatever its state, leaves the other rules as they were, ignores the
\* listed ids no rule has and returns the number of listed rules that exist;
\* PauseAllAlerts does so for every rule.
C12_PauseExact ==
  [][/\ \A ids \in PauseAlertInput : \A paused \in BOOLEAN :
          (/\ Len(ids) > 0
           /\ last'.op = "PauseAlert" /\ last'.alerts = ids
           /\ PauseAlert(ids, paused, 0))
          => /\ last'.err = NoErr
             /\ PausedTo(alert, alert', IdsOf(ids), paused)
             /\ last'.count = Cardinality({r \in alert : r.id \in IdsOf(ids)})
     /\ \A paused \in BOOLEAN :
          (last'.op = "PauseAllAlerts" /\ PauseAllAlerts(paused, 0))
          => /\ last'.err = NoErr
             /\ PausedTo(alert, alert', {r.id : r \in alert}, paused)
             /\ last'.count = Cardinality(alert)]_vars

\* an unpausing PauseAlert that listed rule 1, whose state had changed twice
\* before, and an id no rule has: it counted one row, put rule 1 to unknown
\* with its stateChanges untouched and left a paused rule beside it paused
C12_Witness ==
  /\ last.op = "PauseAlert"
  /\ last.state = "unpaused"
  /\ last.err = NoErr
  /\ last.alerts = <<1, MaxAlertId + 1>>
  /\ last.count = 1
  /\ \E r \in alert : r.id = 1 /\ r.state = AlertStateUnknown /\ r.stateChanges = 2
  /\ \E o \in alert : o.id # 1 /\ o.state = AlertStatePaused

\* the successful UpdateAlert command of this step, when the step is one
UpdateAlertStep ==
  /\ last'.op = "UpdateAlert"
  /\ last'.err = NoErr
  /\ UpdateAlert(last'.alerts[1], 0)

\* the rows of the link table b that name the rule
LinksOf(b, id) == {x \in DOMAIN b : x.alertId = id}

\* the rule's rows of alert_rule_tag (art) are one row for each of the tags
TagLinksAre(art, tagTable, id, tags) ==
  /\ \A i \in DOMAIN tags : \E r \in tagTable : r.tag = tags[i]
  /\ LinksOf(art, id) =
       {[alertId |-> id, tagId |-> TagId(tagTable, tags[i])] : i \in DOMAIN tags}
  /\ Cardinality(LinksOf(art, id)) = Cardinality({tags[i] : i \in DOMAIN tags})
  /\ \A x \in LinksOf(art, id) : art[x] = 1

\* C13: after a successful SaveAlerts every rule of the dashboard on a desired
\* panel, inserted, updated or left as it was, has one row of alert_rule_tag for
\* each tag of its settings and no other; after a successful UpdateAlert the rule
\* has one for each tag of the command and no other; a repeated write adds none.
C13_TagLinksFollowSettings ==
  [][/\ SaveAlertsStep
          => \A r2 \in OfDashboard(alert', last'.id) :
               r2.panelId \in PanelIds(last'.alerts)
                 => TagLinksAre(alert_rule_tag', tag', r2.id, GetTagsFromSettings(r2))
     /\ UpdateAlertStep
          => /\ TagLinksAre(alert_rule_tag', tag', last'.id, last'.alerts[1].alertRuleTags)
             /\ \A r2 \in alert' :
                  r2.id = last'.id
                    => TagLinksAre(alert_rule_tag', tag', r2.id, GetTagsFromSettings(r2))]_vars

\* the channels of the org that one of the uids names
Channels(orgId, uids) ==
  {c.id : c \in {n \in AlertNotification :
                   n.orgId = orgId /\ \E i \in DOMAIN uids : uids[i] = n.uid}}

\* the rule's rows of alert_rule_notification (arn) name those channels and no other
NotificationLinksAre(arn, r, uids) ==
  {x.notificationId : x \in LinksOf(arn, r.id)} = Channels(r.orgId, uids)

AllToken == [hasNot |-> FALSE, v |-> "all"]

\* the rule's state passes one of the tokens: it is X for a token X, it is not X
\* for a token not_X
PassesSomeToken(st, tokens) ==
  \E i \in DOMAIN tokens :
    \/ tokens[i].hasNot /\ st # tokens[i].v
    \/ ~tokens[i].hasNot /\ st = tokens[i].v

\* C15: SearchAlerts with a state filter that has the token "all" at any place
\* returns what the same query without state filter returns.
C15_AllTokenAnywhere ==
  (/\ last.op = "SearchAlerts"
   /\ \E i \in DOMAIN last.alerts[1].state : last.alerts[1].state[i] = AllToken)
    => last.result = HandleAlertsQueryResult(DB, [last.alerts[1] EXCEPT !.state = <<>>])

\* C16: SearchAlerts with state tokens, none of them "all", returns the rules the
\* query without state filter returns whose state passes at least one token, and
\* every row it returns is a rule of the query's org.
C16_StateTokensOr ==
  (/\ last.op = "SearchAlerts"
   /\ Len(last.alerts[1].state) > 0
   /\ \A i \in DOMAIN last.alerts[1].state : last.alerts[1].state[i] # AllToken)
    => /\ last.result =
            {r \in HandleAlertsQueryResult(DB, [last.alerts[1] EXCEPT !.state = <<>>]) :
               PassesSomeToken(r.state, last.alerts[1].state)}
       /\ \A r \in last.result :
            \E a \in alert : a.id = r.id /\ a.orgId = last.alerts[1].orgId

\* a search of org 1 for not_ok returned the org's unknown rule and neither its
\* ok rule nor a rule of org 2
C16_Witness ==
  /\ last.op = "SearchAlerts"
  /\ last.id = 1
  /\ last.alerts[1].state = <<[hasNot |-> TRUE, v |-> AlertStateOK]>>
  /\ Cardinality(last.result) = 1
  /\ \E r \in last.result : r.state = AlertStateUnknown
  /\ \E a \in alert : a.orgId = 1 /\ a.state = AlertStateOK

\* C18: a successful SaveAlerts writes the persisted rule that a desired rule
\* matches, and stamps its updated time with the clock's value, if and only if the
\* two differ in name, message or settings, a settings document on one side only
\* included; it does not write it for a difference in state alone.
C18_WrittenIffChanged ==
  [][SaveAlertsStep
       => \A r \in OfDashboard(alert, last'.id) :
            \A i \in DOMAIN last'.alerts :
              last'.alerts[i].panelId = r.panelId
                => IF \/ r.name # last'.alerts[i].name
                      \/ r.message # last'.alerts[i].message
                      \/ r.settings # last'.alerts[i].settings
                     THEN /\ [msg |-> "Alert updated", id |-> r.id] \in last'.log
                          /\ \E r2 \in alert' : r2.id = r.id /\ r2.updated = now
                     ELSE /\ [msg |-> "Alert updated", id |-> r.id] \notin last'.log
                          /\ r \in alert']_vars

\* C19: a successful UpdateAlert leaves the rule's id, state, state_changes and
\* new_state_date as they were and gives it the command's name, frequency,
\* duration and settings and the clock's value as updated time; an UpdateAlert on
\* an id no rule has returns "Cannot find alert" and changes nothing.
C19_UpdateAlertFrame ==
  [][(last'.op = "UpdateAlert" /\ UpdateAlert(last'.alerts[1], 0))
       => IF \E r \in alert : r.id = last'.id
            THEN last'.err = NoErr
                   => \A r \in alert :
                        r.id = last'.id
                          => \E r2 \in alert' :
                               /\ r2.id = r.id
                               /\ r2.state = r.state
                               /\ r2.stateChanges = r.stateChanges
                               /\ r2.newStateDate = r.newStateDate
                               /\ r2.name = last'.alerts[1].name
                               /\ r2.frequency = last'.alerts[1].frequency
                               /\ r2.for = ParseDuration(last'.alerts[1].for).d
                               /\ r2.settings = CommandDoc(last'.alerts[1])
                               /\ r2.updated = now
            ELSE last'.err = ErrCannotFindAlert /\ UNCHANGED tables]_vars

\* C20: a SetAlertState that returns an error, because no rule has the id, the
\* rule is paused, the state is the rule's own or the read or the update of the
\* row failed, leaves every rule, and every other table, as it was.
C20_FailedSetAlertStateChangesNothing ==
  [][\A cmd \in AllSetAlertStateInput : \A failAt \in 0..2 :
       (/\ last'.op = "SetAlertState"
        /\ last'.id = cmd.alertId
        /\ last'.state = cmd.state
        /\ last'.err # NoErr
        /\ SetAlertState(cmd, failAt))
       => /\ last'.err \in {ErrCouldNotFindAlert, ErrCannotChangeStateOnPausedAlert,
                             ErrRequiresNewState, ErrStorage}
          /\ alert' = alert
          /\ UNCHANGED tables]_vars

\* the update of a rule that had moved once, asked to move again to another state,
\* failed
C20_Witness ==
  /\ last.op = "SetAlertState"
  /\ last.err = ErrStorage
  /\ last.n = 2
  /\ \E r \in alert :
       /\ r.id = last.id
       /\ r.state \notin {AlertStatePaused, last.state}
       /\ r.stateChanges = 1

\* C21: a rule in state paused is, after any SetAlertState, SaveAlerts,
\* UpdateAlert, CreateAlert, PauseAlert or PauseAllAlerts, still there with its id
\* and in state paused, unless the step is a PauseAlert that lists its id or a
\* PauseAllAlerts that unpauses, or the step deleted the rule.
C21_PausedLeftOnlyByPause ==
  [][\A r \in alert :
       r.state = AlertStatePaused
         => \/ \E r2 \in alert' : r2.id = r.id /\ r2.state = AlertStatePaused
            \/ /\ last'.op = "PauseAlert"
               /\ r.id \in IdsOf(last'.alerts)
               /\ PauseAlert(last'.alerts, last'.state = "paused", 0)
            \/ /\ last'.op = "PauseAllAlerts"
               /\ last'.state = "unpaused"
               /\ PauseAllAlerts(FALSE, 0)
            \/ \A r2 \in alert' : r2.id # r.id]_vars

\* an UpdateAlert renamed a paused rule of a dashboard, whose state had changed
\* once, and left it paused
C21_Witness ==
  /\ last.op = "UpdateAlert"
  /\ last.err = NoErr
  /\ \E r \in alert :
       /\ r.id = last.id
       /\ r.dashboardId = 1
       /\ r.name = "c"
       /\ r.state = AlertStatePaused
       /\ r.stateChanges = 1

\* C22: for every rule that exists before and after a step, state_changes is one
\* more after a SetAlertState of the rule that returned no error, and is what it
\* was after any other step (PauseAlert, PauseAllAlerts, a SaveAlerts that matched
\* its panel, UpdateAlert, CreateAlert, a SetAlertState that was refused or that
\* moved another rule); so it never decreases.
C22_StateChangesMonotonic ==
  [][\A r \in alert : \A r2 \in alert' :
       r2.id = r.id
         => /\ r2.stateChanges >= r.stateChanges
            /\ IF \E cmd \in AllSetAlertStateInput :
                    cmd.alertId = r.id /\ SetAlertStateStep(cmd) /\ last'.err = NoErr
                 THEN r2.stateChanges = r.stateChanges + 1
                 ELSE r2.stateChanges = r.stateChanges]_vars

\* a SaveAlerts rewrote, from a desired rule whose counter is zero, the row of a
\* rule that had changed state twice, and the row still counts two
C22_Witness ==
  /\ last.op = "SaveAlerts"
  /\ last.err = NoErr
  /\ \E r \in alert :
       /\ [msg |-> "Alert updated", id |-> r.id] \in last.log
       /\ r.stateChanges = MaxStateChanges
       /\ \E i \in DOMAIN last.alerts :
            last.alerts[i].panelId = r.panelId /\ last.alerts[i].stateChanges = 0

\* C23: in every state that interleavings of UpdateAlert, DeleteAlert, CreateAlert
\* and SaveAlerts reach, every row of alert_rule_tag and of alert_rule_notification
\* names a rule that has a row in alert.
C23_NoOrphanLinks ==
  \A x \in DOMAIN alert_rule_tag \cup DOMAIN alert_rule_notification :
    \E r \in alert : r.id = x.alertId

====
